---- MODULE Spec2Model ----
(***************************************************************************)
(* Model of pdf_to_csv_converter.py: the line-by-line parse of an HCP      *)
(* enrollee listing (parse_document_text) and the field extraction of one  *)
(* data row (parse_member_line).                                           *)
(*                                                                         *)
(* A Python str is modelled as a sequence of one-character strings, so     *)
(* that strip, split, join, upper, slicing and the regular expressions are *)
(* computed character by character.  Indices into token lists are 1-based; *)
(* an index result of 0 stands for Python's None.                          *)
(***************************************************************************)
EXTENDS Integers, Sequences, FiniteSets, TLC

VARIABLES
    pc,                        \* position of the modelled call
    line,                      \* the line being / last processed
    parsed,                    \* result of the last parse_member_line call
    lines,                     \* raw lines of text consumed so far, in order
    rows,                      \* parse_document_text: rows
    src,                       \* for each row, the index in lines of its source line
    current_provider,
    current_provider_number,
    current_family_code,
    current_family_type

vars == <<pc, line, parsed, lines, rows, src, current_provider,
          current_provider_number, current_family_code, current_family_type>>

---------------------------------------------------------------------------
(* Python values *)

\* None where a str is expected (current_provider = None, ...)
None == <<"None">>

\* None where a dict is expected (parse_member_line returning None)
NoRecord == [None |-> TRUE]

\* the local variable parsed before any call of parse_member_line
NotCalled == [NotCalled |-> TRUE]

EmptyStr == <<>>

---------------------------------------------------------------------------
(* str methods *)

WS == {" ", "\t"}

Digits == {"0", "1", "2", "3", "4", "5", "6", "7", "8", "9"}

LowerLetters == <<"a","b","c","d","e","f","g","h","i","j","k","l","m","n","o","p","q","r","s","t","u","v","w","x","y","z">>

UpperLetters == <<"A","B","C","D","E","F","G","H","I","J","K","L","M","N","O","P","Q","R","S","T","U","V","W","X","Y","Z">>

Letters == {LowerLetters[i] : i \in DOMAIN LowerLetters} \cup
           {UpperLetters[i] : i \in DOMAIN UpperLetters}

\* the upper-case letter of each lower-case letter
UpperTable ==
    [c \in {LowerLetters[i] : i \in DOMAIN LowerLetters} |->
        UpperLetters[CHOOSE i \in DOMAIN LowerLetters : LowerLetters[i] = c]]

UpperChar(c) == IF c \in DOMAIN UpperTable THEN UpperTable[c] ELSE c

upper(s) == [i \in 1..Len(s) |-> UpperChar(s[i])]

AllIn(s, C) == \A i \in 1..Len(s) : s[i] \in C

lstrip_chars(s, C) ==
    LET n == Len(s)
        k == CHOOSE k \in 1..(n + 1) :
                /\ \A j \in 1..(k - 1) : s[j] \in C
                /\ (k = n + 1 \/ s[k] \notin C)
    IN  SubSeq(s, k, n)

rstrip_chars(s, C) ==
    LET n == Len(s)
        k == CHOOSE k \in 0..n :
                /\ \A j \in (k + 1)..n : s[j] \in C
                /\ (k = 0 \/ s[k] \notin C)
    IN  SubSeq(s, 1, k)

strip_chars(s, C) == rstrip_chars(lstrip_chars(s, C), C)

strip(s) == strip_chars(s, WS)

rstrip(s) == rstrip_chars(s, WS)

isdigit(s) == s # EmptyStr /\ AllIn(s, Digits)

startswith(s, p) == Len(s) >= Len(p) /\ \A j \in 1..Len(p) : s[j] = p[j]

\* p in s
contains(s, p) ==
    \E i \in 1..(Len(s) - Len(p) + 1) : \A j \in 1..Len(p) : s[i + j - 1] = p[j]

RECURSIVE join(_)
\* " ".join(toks)
join(toks) ==
    IF Len(toks) = 0 THEN EmptyStr
    ELSE IF Len(toks) = 1 THEN toks[1]
    ELSE toks[1] \o <<" ">> \o join(Tail(toks))

RECURSIVE re_split_ws(_)
\* re.split(r'\s+', s)
re_split_ws(s) ==
    IF \A i \in 1..Len(s) : s[i] \notin WS THEN <<s>>
    ELSE LET n == Len(s)
             i == CHOOSE i \in 1..n :
                     s[i] \in WS /\ \A j \in 1..(i - 1) : s[j] \notin WS
             k == CHOOSE k \in (i + 1)..(n + 1) :
                     /\ \A j \in i..(k - 1) : s[j] \in WS
                     /\ (k = n + 1 \/ s[k] \notin WS)
         IN  <<SubSeq(s, 1, i - 1)>> \o re_split_ws(SubSeq(s, k, n))

NonBlank(t) == strip(t) # EmptyStr

---------------------------------------------------------------------------
(* Parsing utilities *)

RELATION_KEYWORDS ==
    { <<"P","R","I","N","C","I","P","A","L">>, <<"S","P","O","U","S","E">>, <<"C","H","I","L","D">>, <<"C","H","I","L","D","1">>, <<"C","H","I","L","D","2">>, <<"C","H","I","L","D","3">>,
      <<"C","H","I","L","D","4">>, <<"C","H","I","L","D"," ","1">>, <<"C","H","I","L","D"," ","2">>, <<"G","U","A","R","D","I","A","N">>, <<"D","E","P","E","N","D","E","N","T">>, <<"D","E","P","E","N","D","A","N","T">> }

DateSep == {"/", "-"}

DigitRun(s, a, b, lo, hi) ==
    /\ (b - a + 1) \in lo..hi
    /\ \A k \in a..b : s[k] \in Digits

\* DATE_RE.match(s)
DATE_RE(s) ==
    \E i, j \in 1..Len(s) :
        /\ i < j
        /\ s[i] \in DateSep
        /\ s[j] \in DateSep
        /\ \/ /\ DigitRun(s, 1, i - 1, 1, 2)
              /\ DigitRun(s, i + 1, j - 1, 1, 2)
              /\ DigitRun(s, j + 1, Len(s), 2, 4)
           \/ /\ DigitRun(s, 1, i - 1, 4, 4)
              /\ DigitRun(s, i + 1, j - 1, 1, 2)
              /\ DigitRun(s, j + 1, Len(s), 1, 2)

\* SEX_RE.match(s)
SEX_RE(s) == upper(s) \in {<<"M">>, <<"F">>, <<"M","A","L","E">>, <<"F","E","M","A","L","E">>}

\* NHIA_RE.match(s)
NHIA_RE(s) ==
    \E k \in 3..Len(s) :
        /\ \A j \in 1..k : s[j] \in Digits
        /\ \/ k = Len(s)
           \/ /\ s[k + 1] = "-"
              /\ \A j \in (k + 2)..Len(s) : s[j] \in Digits

find_date_index(tokens) ==
    IF \E i \in 1..Len(tokens) : DATE_RE(strip(tokens[i]))
    THEN CHOOSE i \in 1..Len(tokens) :
            /\ DATE_RE(strip(tokens[i]))
            /\ \A j \in 1..(i - 1) : ~DATE_RE(strip(tokens[j]))
    ELSE IF \E i \in 1..Len(tokens) : DATE_RE(strip_chars(strip(tokens[i]), {".", ","}))
    THEN CHOOSE i \in 1..Len(tokens) :
            /\ DATE_RE(strip_chars(strip(tokens[i]), {".", ","}))
            /\ \A j \in 1..(i - 1) : ~DATE_RE(strip_chars(strip(tokens[j]), {".", ","}))
    ELSE 0

Min2(a, b) == IF a < b THEN a ELSE b

\* faulty variant: the identifier is looked for in every token, not the first max_scan
find_nhia_index_unbounded(tokens, max_scan) ==
    IF \E i \in 1..Len(tokens) : NHIA_RE(strip(tokens[i]))
    THEN CHOOSE i \in 1..Len(tokens) :
            /\ NHIA_RE(strip(tokens[i]))
            /\ \A j \in 1..(i - 1) : ~NHIA_RE(strip(tokens[j]))
    ELSE 0

find_nhia_index(tokens, max_scan) ==
    LET n == Min2(Len(tokens), max_scan)
    IN  IF \E i \in 1..n : NHIA_RE(strip(tokens[i]))
        THEN CHOOSE i \in 1..n :
                /\ NHIA_RE(strip(tokens[i]))
                /\ \A j \in 1..(i - 1) : ~NHIA_RE(strip(tokens[j]))
        ELSE 0

normalize_token(t) == strip_chars(strip(t), {","})

header_like ==
    { <<"S","/","N">>, <<"N","H","I","A">>, <<"N","O">>, <<"N","A","M","E">>, <<"R","E","L","A","T","I","O","N">>, <<"R","E","L">>, <<"S","E","X">>, <<"D","O","B">>,
      <<"E","M","P">>, <<"E","M","P"," ","C","O","D","E">>, <<"E","M","P","L","O","Y","E","E">> }

\* tokens = [normalize_token(t) for t in re.split(r'\s+', text) if t.strip() != ""]
tokenize(text) ==
    LET parts == SelectSeq(re_split_ws(text), NonBlank)
    IN  [i \in 1..Len(parts) |-> normalize_token(parts[i])]

\* the slice tokens[a:b] of Python, given with 1-based inclusive bounds
Slice(toks, a, b) == SubSeq(toks, a, b)

\* lines 124-146: relationship and name_tokens from middle_tokens
split_relationship(middle_tokens) ==
    IF Len(middle_tokens) = 0
    THEN [relationship |-> EmptyStr, name_tokens |-> <<>>]
    ELSE IF /\ Len(middle_tokens) >= 2
            /\ upper(middle_tokens[1]) = <<"C","H","I","L","D">>
            /\ isdigit(middle_tokens[2])
    THEN [relationship |-> join(Slice(middle_tokens, 1, 2)),
          name_tokens |-> Slice(middle_tokens, 3, Len(middle_tokens))]
    ELSE IF /\ Len(middle_tokens) >= 3
            /\ upper(middle_tokens[1]) = <<"E","X","T","R","A">>
            /\ upper(middle_tokens[2]) = <<"D","E","P","E","N","D","E","N","T">>
            /\ isdigit(middle_tokens[3])
    THEN [relationship |-> join(Slice(middle_tokens, 1, 3)),
          name_tokens |-> Slice(middle_tokens, 4, Len(middle_tokens))]
    ELSE IF /\ Len(middle_tokens) >= 2
            /\ upper(join(Slice(middle_tokens, 1, 2))) \in
                   {<<"E","X","T","R","A"," ","D","E","P","E","N","D","E","N","T">>, <<"E","X","T","R","A"," ","D","E","P","E","N","D","A","N","T">>}
    THEN [relationship |-> join(Slice(middle_tokens, 1, 2)),
          name_tokens |-> Slice(middle_tokens, 3, Len(middle_tokens))]
    ELSE IF upper(middle_tokens[1]) \in RELATION_KEYWORDS
    THEN [relationship |-> middle_tokens[1],
          name_tokens |-> Slice(middle_tokens, 2, Len(middle_tokens))]
    ELSE [relationship |-> EmptyStr, name_tokens |-> middle_tokens]

\* faulty variant: the first name token is taken as the last name
split_name_first_is_last(name_tokens) ==
    IF Len(name_tokens) = 0
    THEN [firstname |-> EmptyStr, lastname |-> EmptyStr]
    ELSE IF Len(name_tokens) = 1
    THEN [firstname |-> name_tokens[1], lastname |-> EmptyStr]
    ELSE [firstname |-> join(Slice(name_tokens, 2, Len(name_tokens))),
          lastname |-> name_tokens[1]]

\* lines 148-156: firstname and lastname from name_tokens
split_name(name_tokens) ==
    IF Len(name_tokens) = 0
    THEN [firstname |-> EmptyStr, lastname |-> EmptyStr]
    ELSE IF Len(name_tokens) = 1
    THEN [firstname |-> name_tokens[1], lastname |-> EmptyStr]
    ELSE [firstname |-> join(Slice(name_tokens, 1, Len(name_tokens) - 1)),
          lastname |-> name_tokens[Len(name_tokens)]]

\* lines 101-107: the index of the sex marker before the date, 0 if there is none
sex_index(tokens, dob_idx) ==
    IF dob_idx - 1 >= 1 /\ SEX_RE(strip(tokens[dob_idx - 1]))
    THEN dob_idx - 1
    ELSE 0

\* lines 105, 107
name_end_index(dob_idx, sex_idx) == IF sex_idx # 0 THEN sex_idx ELSE dob_idx

\* line 119: middle_tokens = tokens[nhia_idx + 1:name_end_idx]
middle_zone(tokens, nhia_idx, name_end_idx) ==
    Slice(tokens, nhia_idx + 1, name_end_idx - 1)

\* lines 100-112, 118, 158-166: the record returned
member_record(tokens, dob_idx, sex_idx, nhia_idx, rel, nm) ==
    [ NHIA_Number |-> strip(tokens[nhia_idx]),
      Relationship |-> rel.relationship,
      FirstName |-> nm.firstname,
      LastName |-> nm.lastname,
      Sex |-> IF sex_idx # 0 THEN strip(tokens[sex_idx]) ELSE EmptyStr,
      DOB |-> strip(tokens[dob_idx]),
      EmpCode |-> IF dob_idx + 1 <= Len(tokens)
                  THEN strip(join(Slice(tokens, dob_idx + 1, Len(tokens))))
                  ELSE EmptyStr ]

\* lines 119-156, once the date, sex and identifier tokens are located
parse_located(tokens, dob_idx, sex_idx, nhia_idx, rel) ==
    member_record(tokens, dob_idx, sex_idx, nhia_idx, rel, split_name(rel.name_tokens))

\* lines 114-119
parse_identified(tokens, dob_idx, sex_idx, nhia_idx) ==
    IF nhia_idx = 0 THEN NoRecord
    ELSE parse_located(tokens, dob_idx, sex_idx, nhia_idx,
             split_relationship(
                 middle_zone(tokens, nhia_idx, name_end_index(dob_idx, sex_idx))))

\* lines 96-116
parse_dated(tokens, dob_idx) ==
    IF dob_idx = 0 THEN NoRecord
    ELSE parse_identified(tokens, dob_idx, sex_index(tokens, dob_idx),
                          find_nhia_index(tokens, 3))

\* lines 89-98
parse_tokens(tokens) ==
    IF Len(tokens) < 3 THEN NoRecord
    ELSE IF \E i \in 1..Min2(Len(tokens), 4) : upper(tokens[i]) \in header_like
    THEN NoRecord
    ELSE parse_dated(tokens, find_date_index(tokens))

\* lines 85-88
parse_text(text) ==
    IF text = EmptyStr THEN NoRecord ELSE parse_tokens(tokenize(text))

parse_member_line(ln) == parse_text(strip(ln))

---------------------------------------------------------------------------
(* Regular expressions over whole lines.  A pattern is run as the set of  *)
(* positions (index of the next character to read) it can reach; all the   *)
(* line patterns are compiled with re.IGNORECASE.                          *)

\* a literal
re_lit(s, P, lit) ==
    { p + Len(lit) : p \in { q \in P :
        /\ q + Len(lit) - 1 <= Len(s)
        /\ \A k \in 1..Len(lit) : UpperChar(s[q + k - 1]) = UpperChar(lit[k]) } }

\* C*
re_star(s, P, C) ==
    IF P = {} THEN {} ELSE
    { q \in 1..(Len(s) + 1) : \E p \in P : p <= q /\ \A k \in p..(q - 1) : s[k] \in C }

\* C+
re_plus(s, P, C) ==
    IF P = {} THEN {} ELSE
    { q \in 1..(Len(s) + 1) : \E p \in P : p < q /\ \A k \in p..(q - 1) : s[k] \in C }

\* one character of C
re_one(s, P, C) == { p + 1 : p \in { q \in P : q <= Len(s) /\ s[q] \in C } }

\* .* and .*? (a line holds no newline)
re_dot_star(s, P) ==
    IF P = {} THEN {} ELSE
    { q \in 1..(Len(s) + 1) : \E p \in P : p <= q }

\* the positions of P at which a character of C stands
re_before(s, P, C) == { p \in P : p <= Len(s) /\ s[p] \in C }

SetMin(S) == CHOOSE x \in S : \A y \in S : x <= y

\* the longest run of characters of C starting at p (a greedy C+ group)
MaxRun(s, p, C) ==
    SubSeq(s, p, CHOOSE e \in p..Len(s) :
                    /\ \A k \in p..e : s[k] \in C
                    /\ (e = Len(s) \/ s[e + 1] \notin C))

\* FOOTER_RE.match(s): ^\s*Page\s+\d+\s+of\s+\d+.*$
FOOTER_RE(s) ==
    LET a == re_lit(s, re_star(s, {1}, WS), <<"P","a","g","e">>)
        b == re_plus(s, re_plus(s, a, WS), Digits)
        c == re_lit(s, re_plus(s, b, WS), <<"o","f">>)
        d == re_plus(s, re_plus(s, c, WS), Digits)
    IN  d # {}

is_footer_line(ln) == FOOTER_RE(strip(ln))

ProvNumChars == Letters \cup Digits \cup {"-", "/"}

\* Provider Number[:\s]*([A-Z0-9\-\/]+) matched at st: where group 1 can start
provider_number_at(s, st) ==
    re_before(s, re_star(s, re_lit(s, {st}, <<"P","r","o","v","i","d","e","r"," ","N","u","m","b","e","r">>), WS \cup {":"}),
              ProvNumChars)

\* provider_number_re.search(s): group(1) of the leftmost match, or None
provider_number_re(s) ==
    LET starts == { st \in 1..Len(s) : provider_number_at(s, st) # {} }
    IN  IF starts = {} THEN None
        ELSE MaxRun(s, SetMin(provider_number_at(s, SetMin(starts))), ProvNumChars)

\* Family\s+.*?\s+Code\s*[-:]\s*(\d+) matched at st: where group 1 can start
family_at(s, st) ==
    LET a == re_plus(s, re_lit(s, {st}, <<"F","a","m","i","l","y">>), WS)
        b == re_lit(s, re_plus(s, re_dot_star(s, a), WS), <<"C","o","d","e">>)
        c == re_one(s, re_star(s, b, WS), {"-", ":"})
    IN  re_before(s, re_star(s, c, WS), Digits)

\* family_re.search(s): group(1) of the leftmost match (.*? lazy), or None
family_re(s) ==
    LET starts == { st \in 1..Len(s) : family_at(s, st) # {} }
    IN  IF starts = {} THEN None
        ELSE MaxRun(s, SetMin(family_at(s, SetMin(starts))), Digits)

\* NHIA\s*-\s*GIFSHIP[_A-Z]*\s+Batch\s+(\d+) matched at st: where group 1 can start
gifship_at(s, st) ==
    LET a == re_lit(s, re_star(s, re_lit(s, {st}, <<"N","H","I","A">>), WS), <<"-">>)
        b == re_lit(s, re_star(s, a, WS), <<"G","I","F","S","H","I","P">>)
        c == re_plus(s, re_star(s, b, Letters \cup {"_"}), WS)
        d == re_plus(s, re_lit(s, c, <<"B","a","t","c","h">>), WS)
    IN  re_before(s, d, Digits)

\* gifship_re.search(s): group(1) of the leftmost match, or None
gifship_re(s) ==
    LET starts == { st \in 1..Len(s) : gifship_at(s, st) # {} }
    IN  IF starts = {} THEN None
        ELSE MaxRun(s, SetMin(gifship_at(s, SetMin(starts))), Digits)

provider_keywords ==
    { <<"H","O","S","P","I","T","A","L">>, <<"C","L","I","N","I","C">>, <<"C","E","N","T","R","E">>, <<"C","E","N","T","E","R">>, <<"S","P","E","C","I","A","L","I","S","T">>, <<"P","R","O","V","I","D","E","R">>,
      <<"H","E","A","L","T","H">> }

\* any(k in line.upper() for k in (...))
is_provider_line(ln) ==
    LET u == upper(ln)
    IN  \E k \in provider_keywords : contains(u, k)

table_header_words ==
    { <<"S","/","N">>, <<"N","H","I","A">>, <<"N","A","M","E">>, <<"R","E","L","A","T","I","O","N">>, <<"E","M","P"," ","C","O","D","E">>, <<"E","M","P","L","O","Y","E","E">>,
      <<"T","O","T","A","L"," ","E","N","R","O","L","L","E","E","S">> }

\* re.search(r'^(S\/N|NHIA|...)', line, re.IGNORECASE)
is_table_header(ln) ==
    LET u == upper(ln)
    IN  \E k \in table_header_words : startswith(u, k)

\* faulty variant: the "or" default is dropped, None is kept
or_empty_keeps_none(x) == x

\* x or ""
or_empty(x) == IF x = None \/ x = EmptyStr THEN EmptyStr ELSE x

\* lines 237-242: the GIFSHIP rewrite of a parsed row
gifship_row(p) ==
    [p EXCEPT !.Relationship = <<"M","E","M","B","E","R">>,
              !.FirstName =
                  IF startswith(upper(p.FirstName), <<"M","E","M","B","E","R"," ">>)
                  THEN strip(SubSeq(p.FirstName, 8, Len(p.FirstName)))
                  ELSE IF upper(p.FirstName) = <<"M","E","M","B","E","R">> THEN EmptyStr
                  ELSE p.FirstName]

\* lines 233-242: the row appended for a parsed line
assemble(p, provider, provider_number, family_code, family_type) ==
    LET q == [ Provider |-> or_empty(provider),
               ProviderNumber |-> or_empty(provider_number),
               FamilyCode |-> or_empty(family_code),
               NHIA_Number |-> p.NHIA_Number,
               Relationship |-> p.Relationship,
               FirstName |-> p.FirstName,
               LastName |-> p.LastName,
               Sex |-> p.Sex,
               DOB |-> p.DOB,
               EmpCode |-> p.EmpCode ]
    IN  IF family_type = "GIFSHIP" THEN gifship_row(q) ELSE q

\* the category the loop body of parse_document_text gives a line (lines 204-231)
Category(ln) ==
    IF is_footer_line(ln) THEN "footer"
    ELSE IF provider_number_re(ln) # None THEN "provider_number"
    ELSE IF family_re(ln) # None THEN "family"
    ELSE IF gifship_re(ln) # None THEN "gifship"
    ELSE IF is_provider_line(ln) THEN "provider"
    ELSE IF is_table_header(ln) THEN "table_header"
    ELSE "data"

---------------------------------------------------------------------------
(* parse_document_text: one pass over the lines of text *)

\* the locals of parse_document_text that the loop body reads and writes
Locals ==
    [ provider |-> current_provider,
      provider_number |-> current_provider_number,
      family_code |-> current_family_code,
      family_type |-> current_family_type,
      rows |-> rows,
      parsed |-> parsed ]

\* faulty variant: the provider-number line also falls through to the provider-name branch
on_provider_number_and_name(c, ln) ==
    [c EXCEPT !.provider_number = strip(provider_number_re(ln)),
              !.provider = strip(ln)]

\* lines 208-210
on_provider_number(c, ln) ==
    [c EXCEPT !.provider_number = strip(provider_number_re(ln))]

\* faulty variant: the ordinary family header does not reset the family type
on_family_keeps_type(c, ln) == [c EXCEPT !.family_code = strip(family_re(ln))]

\* lines 213-216
on_family(c, ln) ==
    [c EXCEPT !.family_code = strip(family_re(ln)), !.family_type = "NORMAL"]

\* lines 219-222
on_gifship(c, ln) ==
    [c EXCEPT !.family_code = strip(gifship_re(ln)), !.family_type = "GIFSHIP"]

\* lines 224-226
on_provider(c, ln) == [c EXCEPT !.provider = strip(ln)]

\* faulty variant: the row is inserted at the front
rows_prepend(rs, r) == <<r>> \o rs

\* rows.append(parsed)
rows_append(rs, r) == Append(rs, r)

\* faulty variant: a data row clears the family code once it is emitted
emit_clears_family(c, r) ==
    [c EXCEPT !.parsed = r, !.rows = Append(c.rows, r), !.family_code = None]

\* lines 233-244: the assembled row becomes parsed and is appended
emit(c, r) == [c EXCEPT !.parsed = r, !.rows = rows_append(c.rows, r)]

\* lines 232-244
on_parsed(c, p) ==
    IF p # NoRecord
    THEN emit(c, assemble(p, c.provider, c.provider_number, c.family_code,
                          c.family_type))
    ELSE [c EXCEPT !.parsed = p]

\* lines 231-244
on_data(c, ln) == on_parsed(c, parse_member_line(ln))

\* faulty variant: the facility keywords are tested before the provider-number pattern
loop_body_keywords_first(ln, c) ==
    IF is_footer_line(ln) THEN c
    ELSE IF is_provider_line(ln) THEN on_provider(c, ln)
    ELSE IF provider_number_re(ln) # None THEN on_provider_number(c, ln)
    ELSE IF family_re(ln) # None THEN on_family(c, ln)
    ELSE IF gifship_re(ln) # None THEN on_gifship(c, ln)
    ELSE IF is_table_header(ln) THEN c
    ELSE on_data(c, ln)

\* lines 204-244: the body of the loop for one line
loop_body(ln, c) ==
    IF is_footer_line(ln) THEN c
    ELSE IF provider_number_re(ln) # None THEN on_provider_number(c, ln)
    ELSE IF family_re(ln) # None THEN on_family(c, ln)
    ELSE IF gifship_re(ln) # None THEN on_gifship(c, ln)
    ELSE IF is_provider_line(ln) THEN on_provider(c, ln)
    ELSE IF is_table_header(ln) THEN c
    ELSE on_data(c, ln)

---------------------------------------------------------------------------
(* Inputs *)

\* most lines of text one run consumes
MaxLines == 3

\* most tokens between the identifier and the sex/date tokens of a generated row
MaxMiddle == 3

FooterLine == <<"P","a","g","e"," ","1"," ","o","f"," ","2"," ","P","r","o","v","i","d","e","r"," ","N","u","m","b","e","r"," ","Z"," ","F","a","m","i","l","y"," ","y"," ","C","o","d","e","-","8"," ","C","L","I","N","I","C">>

ProviderNumberLine == <<"p","r","o","v","i","d","e","r"," ","n","u","m","b","e","r",":"," ","A","1"," ">>

FamilyLine == <<"F","a","m","i","l","y"," ","x"," ","C","o","d","e"," ","-"," ","1","2">>

GifshipLine == <<"N","H","I","A"," ","-"," ","G","I","F","S","H","I","P","_","A"," ","B","a","t","c","h"," ","3","4">>

BothFamilyLine == <<"N","H","I","A"," ","-"," ","G","I","F","S","H","I","P"," ","B","a","t","c","h"," ","5"," ","F","a","m","i","l","y"," ","q"," ","C","o","d","e",":"," ","6">>

ProviderLine == <<"\t","C","i","t","y"," ","C","l","i","n","i","c">>

TableHeaderLine == <<"T","o","t","a","l"," ","E","n","r","o","l","l","e","e","s"," ","1","2","3"," ","1","/","2","/","3","4">>

DataLine == <<"1","2","3"," ","P","R","I","N","C","I","P","A","L"," ","J","O"," ","D","O","E"," ","M"," ","1","/","2","/","3","4"," ","E","1">>

MemberTwiceLine == <<"1","2","4"," ","M","E","M","B","E","R"," ","M","E","M","B","E","R"," ","A","N","N"," ","1","/","2","/","3","4">>

MemberLine == <<" ","1","2","5"," ","M","e","m","b","e","r"," ","A","N","N"," ","R","O","E"," ","F"," ","3","/","3","/","9","5">>

MemberOnlyLine == <<"1","2","6"," ","m","e","m","b","e","r"," ","1","/","2","/","3","4">>

RejectedLine == <<"n","o"," ","d","a","t","e"," ","h","e","r","e">>

BlankLine == <<" "," ">>

\* the lines a text is made of
TextLines ==
    { FooterLine, ProviderNumberLine, FamilyLine, GifshipLine,
      BothFamilyLine, ProviderLine, TableHeaderLine, DataLine,
      MemberTwiceLine, MemberLine, MemberOnlyLine, RejectedLine, BlankLine }

\* what stands before the middle zone of a generated row
MemberPre ==
    { <<<<" ","1","2","3">>>>, <<<<"J","O","\t","1","2">>, <<"4","5","6","-","7">>>>, <<<<"a">>, <<"b">>, <<"c">>, <<"1","2","3">>>>,
      <<<<"N","A","M","E">>, <<"1","2","3">>>>, <<>> }

\* the tokens of a generated middle zone
MiddleTokens == { <<"c","h","i","l","d">>, <<"E","X","T","R","A">>, <<"D","E","P","E","N","D","E","N","T">>, <<"D","E","P","E","N","D","A","N","T">>, <<"3">>, <<"1","0">>, <<"J","O">> }

\* what stands after the middle zone of a generated row
MemberPost ==
    { <<<<"1","/","2","/","3","4">>>>, <<<<"f">>, <<"2","0","3","4","-","1","-","2">>, <<"E","1">>, <<"E",",">>>>, <<>>, <<<<".","1","/","2","/","3","4">>>>,
      <<<<"s","e","x">>, <<"1","/","2","/","3","4",",">>>>, <<<<"1","/","2","/","3","4",".">>, <<"M">>>> }

Middles == UNION { [1..n -> MiddleTokens] : n \in 0..MaxMiddle }

\* the lines handed to parse_member_line on its own
MemberLines ==
    { join(pre \o mid \o post) : pre \in MemberPre, mid \in Middles, post \in MemberPost }

---------------------------------------------------------------------------
(* parse_document_text as a state machine *)

\* lines 194-198
Init ==
    /\ pc = "loop"
    /\ line = None
    /\ parsed = NotCalled
    /\ lines = <<>>
    /\ rows = <<>>
    /\ src = <<>>
    /\ current_provider = None
    /\ current_provider_number = None
    /\ current_family_code = None
    /\ current_family_type = "NORMAL"

\* line 200 and one iteration of the loop of line 203 on the next line of text
ProcessLine(raw) ==
    /\ pc = "loop"
    /\ Len(lines) < MaxLines
    /\ lines' = Append(lines, raw)
    /\ IF strip(raw) = EmptyStr
       THEN UNCHANGED <<pc, line, parsed, rows, src, current_provider,
                        current_provider_number, current_family_code,
                        current_family_type>>
       ELSE \E c \in {loop_body(rstrip(raw), Locals)} :
                /\ line' = rstrip(raw)
                /\ parsed' = c.parsed
                /\ rows' = c.rows
                /\ src' = IF Len(c.rows) > Len(rows)
                          THEN Append(src, Len(lines) + 1)
                          ELSE src
                /\ current_provider' = c.provider
                /\ current_provider_number' = c.provider_number
                /\ current_family_code' = c.family_code
                /\ current_family_type' = c.family_type
                /\ UNCHANGED pc

\* line 245
Return ==
    /\ pc = "loop"
    /\ pc' = "done"
    /\ UNCHANGED <<line, parsed, lines, rows, src, current_provider,
                   current_provider_number, current_family_code, current_family_type>>

Next ==
    \/ \E raw \in TextLines : ProcessLine(raw)
    \/ Return

Spec == Init /\ [][Next]_vars

---------------------------------------------------------------------------
(* parse_member_line called on its own, as main does on table rows *)

InitMember ==
    /\ pc = "call"
    /\ line \in MemberLines
    /\ parsed = NotCalled
    /\ lines = <<>>
    /\ rows = <<>>
    /\ src = <<>>
    /\ current_provider = None
    /\ current_provider_number = None
    /\ current_family_code = None
    /\ current_family_type = "NORMAL"

\* line 309
CallParseMemberLine ==
    /\ pc = "call"
    /\ parsed' = parse_member_line(line)
    /\ pc' = "returned"
    /\ UNCHANGED <<line, lines, rows, src, current_provider, current_provider_number,
                   current_family_code, current_family_type>>

NextMember == CallParseMemberLine

SpecMember == InitMember /\ [][NextMember]_vars

---------------------------------------------------------------------------
(* Vocabulary of the properties *)

Chars == Letters \cup Digits \cup WS \cup {"/", "-", ":", ",", ".", "_"}

\* a Python str, as opposed to None
IsStr(x) == x \in Seq(Chars)

CSV_FIELDS ==
    { "Provider", "ProviderNumber", "FamilyCode", "NHIA_Number", "Relationship",
      "FirstName", "LastName", "Sex", "DOB", "EmpCode" }

MEMBER_FIELDS ==
    { "NHIA_Number", "Relationship", "FirstName", "LastName", "Sex", "DOB", "EmpCode" }

\* the category of a raw line of text; blank lines never reach the loop
LineCategory(raw) ==
    IF strip(raw) = EmptyStr THEN "blank" ELSE Category(rstrip(raw))

\* the context value a row shows for a local that may still be None
Shown(x) == IF x = None THEN EmptyStr ELSE x

\* the context fields this step changes
ChangedFields ==
    (IF current_provider' # current_provider THEN {"provider"} ELSE {}) \cup
    (IF current_provider_number' # current_provider_number
     THEN {"provider_number"} ELSE {}) \cup
    (IF current_family_code' # current_family_code THEN {"family_code"} ELSE {}) \cup
    (IF current_family_type' # current_family_type THEN {"family_type"} ELSE {})

\* the tokens parse_member_line works on for the current line
Tokens == tokenize(strip(line))

\* the tokens between the identifier token and the sex marker (or, without
\* one, the date token) of an accepted token list
MiddleOf(toks, dob_idx) ==
    middle_zone(toks, find_nhia_index(toks, 3),
                name_end_index(dob_idx, sex_index(toks, dob_idx)))

MiddleZone == MiddleOf(Tokens, find_date_index(Tokens))

Returned == pc = "returned"

---------------------------------------------------------------------------
(* C1 *)

\* C1: every row returned by parse_document_text has the ten output fields,
\* each of them a string and never None, with NHIA_Number and DOB non-empty,
\* also when no provider, provider-number or family header was seen before it.
C1_RecordsComplete ==
    \A i \in 1..Len(rows) :
        /\ DOMAIN rows[i] = CSV_FIELDS
        /\ \A f \in CSV_FIELDS : IsStr(rows[i][f])
        /\ rows[i].NHIA_Number # EmptyStr
        /\ rows[i].DOB # EmptyStr

\* a row emitted before any header line set the context
C1_Witness ==
    /\ Len(rows) > 0
    /\ current_provider = None
    /\ current_provider_number = None
    /\ current_family_code = None
    /\ rows[1].Provider = EmptyStr
    /\ rows[1].FamilyCode = EmptyStr

---------------------------------------------------------------------------
(* C2 *)

\* C2: every row emitted while the family type is GIFSHIP has Relationship
\* "MEMBER" and a FirstName that neither is "MEMBER" nor starts with "MEMBER "
\* (case-insensitive).
C2_SponsorshipNormalized ==
    [][ (Len(rows') > Len(rows) /\ current_family_type = "GIFSHIP") =>
            LET r == rows'[Len(rows')]
            IN  /\ r.Relationship = <<"M","E","M","B","E","R">>
                /\ upper(r.FirstName) # <<"M","E","M","B","E","R">>
                /\ ~startswith(upper(r.FirstName), <<"M","E","M","B","E","R"," ">>) ]_vars

---------------------------------------------------------------------------
(* C3 *)

\* no line strictly between the source lines of rows i and j is of a kind in kinds
NoHeaderBetween(i, j, kinds) ==
    \A k \in (src[i] + 1)..(src[j] - 1) : LineCategory(lines[k]) \notin kinds

C3_SameContext ==
    \A i, j \in 1..Len(rows) :
        i < j =>
            /\ NoHeaderBetween(i, j, {"provider"}) =>
                   rows[i].Provider = rows[j].Provider
            /\ NoHeaderBetween(i, j, {"provider_number"}) =>
                   rows[i].ProviderNumber = rows[j].ProviderNumber
            /\ NoHeaderBetween(i, j, {"family", "gifship"}) =>
                   rows[i].FamilyCode = rows[j].FamilyCode

C3_PersistStep ==
    LET cat == IF lines' # lines THEN LineCategory(lines'[Len(lines')]) ELSE "none"
    IN  /\ current_provider' # current_provider => cat = "provider"
        /\ current_provider_number' # current_provider_number => cat = "provider_number"
        /\ current_family_code' # current_family_code => cat \in {"family", "gifship"}
        /\ current_provider # None => current_provider' \notin {None, EmptyStr}
        /\ current_provider_number # None =>
               current_provider_number' \notin {None, EmptyStr}
        /\ current_family_code # None => current_family_code' \notin {None, EmptyStr}
        /\ Len(rows') > Len(rows) =>
               /\ rows'[Len(rows')].Provider = Shown(current_provider)
               /\ rows'[Len(rows')].ProviderNumber = Shown(current_provider_number)
               /\ rows'[Len(rows')].FamilyCode = Shown(current_family_code)

\* C3: two rows with no header line of a field's kind between their source
\* lines carry the same value of that field; a context field changes only at
\* a header line of its kind, each row carries the value then in effect, and
\* a field once set is never cleared.
C3_ContextPersists == []C3_SameContext /\ [][C3_PersistStep]_vars

\* a family header followed by two rows that both carry its code
C3_Witness ==
    /\ Len(rows) = 2
    /\ rows[1].FamilyCode # EmptyStr
    /\ rows[1].FamilyCode = rows[2].FamilyCode
    /\ rows[1] # rows[2]

---------------------------------------------------------------------------
(* C4 *)

\* C4 as stated: processing one line changes at most one of the four context
\* fields.
C4_AtMostOneField == [][Cardinality(ChangedFields) <= 1]_vars

\* the context fields a line of a category may change
C4_Allowed(cat) ==
    IF cat = "provider_number" THEN {"provider_number"}
    ELSE IF cat \in {"family", "gifship"} THEN {"family_code", "family_type"}
    ELSE IF cat = "provider" THEN {"provider"}
    ELSE {}

\* C4 amended: a provider-number line changes the provider number at most, a
\* provider-name line the provider at most, a family header of either kind
\* the family code and the family type (two fields) at most, and a footer, a
\* table header, a blank line or a candidate data row changes no context field.
C4_FrameByCategory ==
    [][ IF lines' # lines
        THEN ChangedFields \subseteq C4_Allowed(LineCategory(lines'[Len(lines')]))
        ELSE ChangedFields = {} ]_vars

\* a sponsorship header, first line of the text, has set both family fields
C4_Witness ==
    /\ Len(lines) = 1
    /\ LineCategory(lines[1]) = "gifship"
    /\ current_family_code # None
    /\ current_family_type = "GIFSHIP"

---------------------------------------------------------------------------
(* C5 *)

C5_TooFew(toks) == Len(toks) < 3

C5_HeaderWord(toks) ==
    \E i \in 1..Min2(Len(toks), 4) : upper(toks[i]) \in header_like

\* no token is a date, also after stripping trailing '.' and ','
C5_NoDateTrailing(toks) ==
    \A i \in 1..Len(toks) :
        /\ ~DATE_RE(toks[i])
        /\ ~DATE_RE(rstrip_chars(toks[i], {".", ","}))

\* no token is a date, also after stripping leading and trailing '.' and ','
C5_NoDateBothEnds(toks) ==
    \A i \in 1..Len(toks) :
        /\ ~DATE_RE(toks[i])
        /\ ~DATE_RE(strip_chars(toks[i], {".", ","}))

C5_NoIdentifier(toks) == \A i \in 1..Min2(Len(toks), 3) : ~NHIA_RE(toks[i])

C5_Complete(p) == DOMAIN p = MEMBER_FIELDS /\ \A f \in MEMBER_FIELDS : IsStr(p[f])

\* C5 as stated: parse_member_line returns None exactly when the line has
\* fewer than 3 tokens, a header word among its first 4 tokens, no date token
\* (also after stripping trailing '.'/','), or no identifier among its first 3
\* tokens; otherwise a complete record.
C5_RejectsExactly ==
    Returned =>
        \A toks \in {Tokens} :
            /\ (parsed = NoRecord) <=>
                   \/ C5_TooFew(toks)
                   \/ C5_HeaderWord(toks)
                   \/ C5_NoDateTrailing(toks)
                   \/ C5_NoIdentifier(toks)
            /\ parsed # NoRecord => C5_Complete(parsed)

\* C5 amended: the date retry strips '.' and ',' from both ends of the token.
C5_RejectsExactlyBothEnds ==
    Returned =>
        \A toks \in {Tokens} :
            /\ (parsed = NoRecord) <=>
                   \/ C5_TooFew(toks)
                   \/ C5_HeaderWord(toks)
                   \/ C5_NoDateBothEnds(toks)
                   \/ C5_NoIdentifier(toks)
            /\ parsed # NoRecord => C5_Complete(parsed)

\* a line accepted on a token that is a date only once its leading '.' is gone
C5_Witness == Returned /\ parsed # NoRecord /\ C5_NoDateTrailing(Tokens)

---------------------------------------------------------------------------
(* C6 *)

C6_InOrder ==
    /\ Len(src) = Len(rows)
    /\ \A i, j \in 1..Len(rows) : i < j => src[i] < src[j]
    /\ \A i \in 1..Len(rows) :
           /\ src[i] \in 1..Len(lines)
           /\ rows[i].NHIA_Number = parse_member_line(rstrip(lines[src[i]])).NHIA_Number

C6_AppendStep ==
    \/ rows' = rows
    \/ /\ lines' # lines
       /\ Len(rows') = Len(rows) + 1
       /\ SubSeq(rows', 1, Len(rows)) = rows

\* C6: a line yields at most one row, rows are only appended, and the rows
\* stand in the order of their source lines.
C6_EncounterOrder == []C6_InOrder /\ [][C6_AppendStep]_vars

\* two different rows have been emitted
C6_Witness == Len(rows) = 2 /\ rows[1].NHIA_Number # rows[2].NHIA_Number

---------------------------------------------------------------------------
(* C7 *)

C7_Keep(provider, provider_number, family, output) ==
    /\ provider => current_provider' = current_provider
    /\ provider_number => current_provider_number' = current_provider_number
    /\ family => /\ current_family_code' = current_family_code
                 /\ current_family_type' = current_family_type
    /\ output => rows' = rows

C7_Step ==
    (lines' # lines /\ strip(lines'[Len(lines')]) # EmptyStr) =>
        \A ln \in {rstrip(lines'[Len(lines')])} :
            IF is_footer_line(ln) THEN C7_Keep(TRUE, TRUE, TRUE, TRUE)
            ELSE IF provider_number_re(ln) # None
            THEN /\ current_provider_number' = provider_number_re(ln)
                 /\ C7_Keep(TRUE, FALSE, TRUE, TRUE)
            ELSE IF family_re(ln) # None
            THEN /\ current_family_code' = family_re(ln)
                 /\ current_family_type' = "NORMAL"
                 /\ C7_Keep(TRUE, TRUE, FALSE, TRUE)
            ELSE IF gifship_re(ln) # None
            THEN /\ current_family_code' = gifship_re(ln)
                 /\ current_family_type' = "GIFSHIP"
                 /\ C7_Keep(TRUE, TRUE, FALSE, TRUE)
            ELSE IF is_provider_line(ln)
            THEN /\ current_provider' = strip(ln)
                 /\ C7_Keep(FALSE, TRUE, TRUE, TRUE)
            ELSE IF is_table_header(ln) THEN C7_Keep(TRUE, TRUE, TRUE, TRUE)
            ELSE C7_Keep(TRUE, TRUE, TRUE, FALSE)

\* C7: a line gets the first category that matches, in the order footer,
\* provider number, ordinary family header, sponsorship header, provider
\* name, table header, data row, and only that category's action is done: a
\* footer changes nothing whatever else it contains, and a provider-number
\* line never overwrites the provider name.
C7_FirstMatchWins == [][C7_Step]_vars

\* a provider-number line left the provider name unset, and a footer holding a
\* provider number, a family header and a facility keyword changed nothing
C7_Witness ==
    /\ lines = <<ProviderNumberLine, FooterLine>>
    /\ current_provider_number = <<"A","1">>
    /\ current_provider = None
    /\ current_family_code = None
    /\ rows = <<>>

---------------------------------------------------------------------------
(* C8 *)

C8_Digit1to9(t) == Len(t) = 1 /\ t[1] \in (Digits \ {"0"})

\* the relationship the stated order of sub-patterns gives a middle zone
C8_Claimed(mz) ==
    IF Len(mz) >= 2 /\ upper(mz[1]) = <<"C","H","I","L","D">> /\ isdigit(mz[2])
    THEN join(SubSeq(mz, 1, 2))
    ELSE IF /\ Len(mz) >= 3
            /\ upper(mz[1]) = <<"E","X","T","R","A">>
            /\ upper(mz[2]) = <<"D","E","P","E","N","D","E","N","T">>
            /\ C8_Digit1to9(mz[3])
    THEN join(SubSeq(mz, 1, 3))
    ELSE IF /\ Len(mz) >= 2
            /\ upper(mz[1]) = <<"E","X","T","R","A">>
            /\ upper(mz[2]) \in {<<"D","E","P","E","N","D","E","N","T">>, <<"D","E","P","E","N","D","A","N","T">>}
            /\ ~(Len(mz) >= 3 /\ isdigit(mz[3]))
    THEN join(SubSeq(mz, 1, 2))
    ELSE IF Len(mz) >= 1 /\ upper(mz[1]) \in RELATION_KEYWORDS
    THEN mz[1]
    ELSE EmptyStr

\* C8: the relationship of an accepted line is that of the first matching
\* sub-pattern: CHILD <number>; EXTRA DEPENDENT <digit 1-9>; EXTRA
\* DEPENDENT/DEPENDANT with no digit token after it; a vocabulary word; else
\* empty.
C8_RelationshipByPattern ==
    (Returned /\ parsed # NoRecord) =>
        parsed.Relationship = C8_Claimed(MiddleZone)

---------------------------------------------------------------------------
(* C9 *)

\* C9: for an accepted line the relationship tokens are a prefix of the
\* middle zone and the rest of it is split as: none - both names empty; one -
\* FirstName; two or more - LastName the last, FirstName the others joined by
\* single spaces.
C9_NameSplit ==
    (Returned /\ parsed # NoRecord) =>
        \A mz \in {MiddleZone} :
        LET k == Len(tokenize(parsed.Relationship))
            n == Len(mz) - k
        IN  /\ k <= Len(mz)
            /\ parsed.Relationship = join(SubSeq(mz, 1, k))
            /\ n = 0 => parsed.FirstName = EmptyStr /\ parsed.LastName = EmptyStr
            /\ n = 1 => parsed.FirstName = mz[k + 1] /\ parsed.LastName = EmptyStr
            /\ n >= 2 =>
                   /\ parsed.LastName = mz[Len(mz)]
                   /\ parsed.FirstName = join(SubSeq(mz, k + 1, Len(mz) - 1))

\* an accepted line with a relationship, a first name and a last name
C9_Witness ==
    /\ Returned
    /\ parsed # NoRecord
    /\ parsed.Relationship # EmptyStr
    /\ parsed.FirstName # EmptyStr
    /\ parsed.LastName # EmptyStr
    /\ parsed.FirstName # parsed.LastName

---------------------------------------------------------------------------
(* C10 *)

\* the family headers among the lines before line n
FamilyHeadersBefore(n) ==
    { k \in 1..(n - 1) : LineCategory(lines[k]) \in {"family", "gifship"} }

SetMax(S) == CHOOSE x \in S : \A y \in S : y <= x

\* C10: a row has Relationship "MEMBER" exactly when the last family header
\* before its line is a sponsorship header, and its FamilyCode is the digits
\* of that header (empty, and not forced, when there is none).
C10_LastFamilyHeader ==
    \A i \in 1..Len(rows) :
        LET H == FamilyHeadersBefore(src[i])
        IN  IF H = {}
            THEN /\ rows[i].FamilyCode = EmptyStr
                 /\ rows[i].Relationship # <<"M","E","M","B","E","R">>
            ELSE LET h == rstrip(lines[SetMax(H)])
                 IN  IF family_re(h) # None
                     THEN /\ rows[i].FamilyCode = family_re(h)
                          /\ rows[i].Relationship # <<"M","E","M","B","E","R">>
                     ELSE /\ rows[i].FamilyCode = gifship_re(h)
                          /\ rows[i].Relationship = <<"M","E","M","B","E","R">>

\* a sponsorship header, then an ordinary one, then a row that is not forced
C10_Witness ==
    /\ Len(lines) = 3
    /\ LineCategory(lines[1]) = "gifship"
    /\ LineCategory(lines[2]) = "family"
    /\ Len(rows) = 1
    /\ rows[1].Relationship # <<"M","E","M","B","E","R">>
    /\ rows[1].FamilyCode = <<"1","2">>

====
